---- MODULE Spec2Model ----
(***************************************************************************)
(* lead-miner: the enrichment-and-scoring pipeline.                        *)
(*                                                                         *)
(* Records are JavaScript objects: a TLA+ record whose DOMAIN is the set   *)
(* of fields the object has.  A field that is absent (or undefined) is     *)
(* simply not in the DOMAIN; null is the record `null`.  Where an array is *)
(* expected, undefined and null are held as one-element sequences of their *)
(* marker, which no array of the program equals.  A call that may throw    *)
(* yields a completion record: Return(value) or Throw(error).             *)
(*                                                                         *)
(* Numbers.  Time is counted in units of 12 hours (Day = 2 units), so      *)
(* that Math.floor in the day arithmetic is not the identity.  A number    *)
(* that the code rounds with toFixed(2) is held as an integer number of    *)
(* hundredths; sizeScore (totalReviews / 10) is held in tenths.  Unrounded *)
(* quotients are compared exactly, by cross-multiplication.                *)
(***************************************************************************)
EXTENDS Integers, Sequences, FiniteSets, TLC

VARIABLES
  pc,        \* position of the run
  now,       \* Date.now(), in units of 12 hours
  leads,     \* the scraped / loaded business records (the caller's array)
  enriched,  \* what enrichLeads returned (the caller's array)
  scored,    \* what scoreAllLeads returned
  ret,       \* the result of a direct call of one method
  run,       \* the entry point that is running
  files,     \* the files of output/ this run has written, by name
  requests,  \* the webhook requests this run has issued
  digest,    \* the digest text of the run, no text (<<>>) before it is made
  result     \* what sendWhatsappAlert returned to the run

vars == <<pc, now, leads, enriched, scored, ret, run, files, requests, digest, result>>

----------------------------------------------------------------------------
(* JavaScript values *)

undefined == [type |-> "undefined"]
null      == [type |-> "null"]

\* undefined and null where an array is expected
undefinedArray == <<undefined>>
nullArray      == <<null>>

\* !reviews, reviews an array, undefined or null
IsNullish(reviews) == reviews = undefinedArray \/ reviews = nullArray

Has(obj, f) == f \in DOMAIN obj

\* obj?.f, f holding an object: the field, or undefined when obj is nullish
\* or has no such field
Get(obj, f) == IF Has(obj, f) THEN obj[f] ELSE undefined

\* obj.f, f holding an array
GetArray(obj, f) == IF Has(obj, f) THEN obj[f] ELSE undefinedArray

\* completion records
Return(v) == [completion |-> "return", value |-> v]
Throw(e)  == [completion |-> "throw", value |-> [type |-> e]]
Threw(c)  == c.completion = "throw"

\* { ...obj, f: v }
Spread(obj, f, v) == [g \in DOMAIN obj \cup {f} |-> IF g = f THEN v ELSE obj[g]]

Min(a, b) == IF a <= b THEN a ELSE b

Abs(a) == IF a < 0 THEN 0 - a ELSE a

\* Math.round(num / den), den > 0: the nearest integer, halves towards +infinity
MathRound(num, den) == (2 * num + den) \div (2 * den)

\* Math.floor(num / den), den > 0
MathFloor(num, den) == num \div den

\* parseFloat((num / den).toFixed(2)), den > 0, as a number of hundredths:
\* the nearest hundredth of the magnitude, halves away from zero
ToFixed2(num, den) ==
  LET h == (200 * Abs(num) + den) \div (2 * den)
  IN IF num < 0 THEN 0 - h ELSE h

\* array.slice(0, n)
Slice0(s, n) == SubSeq(s, 1, Min(n, Len(s)))

\* an unstable sort: elements that compare equal come out in reverse
SortDescUnstable(s, key) ==
  LET n == Len(s)
      rank(i) == Cardinality({j \in 1..n :
                     key[j] > key[i] \/ (key[j] = key[i] /\ j > i)}) + 1
  IN [k \in 1..n |-> s[CHOOSE i \in 1..n : rank(i) = k]]

\* Array.prototype.sort((a, b) => key(b) - key(a)): the elements of s in
\* descending order of key, key[i] being the key of s[i].  The sort is
\* stable (ECMAScript 2019): elements that compare equal keep their order.
SortDesc(s, key) ==
  LET n == Len(s)
      rank(i) == Cardinality({j \in 1..n :
                     key[j] > key[i] \/ (key[j] = key[i] /\ j < i)}) + 1
  IN [k \in 1..n |-> s[CHOOSE i \in 1..n : rank(i) = k]]

\* 1000 * 60 * 60 * 24 milliseconds, in units of 12 hours
Day == 2

\* sort((a, b) => new Date(b.date) - new Date(a.date))
SortByDateDesc(reviews) == SortDesc(reviews, [i \in 1..Len(reviews) |-> reviews[i].date])

----------------------------------------------------------------------------
(* ReviewScraper *)

\* toLowerCase, on the strings that have an upper-case letter
ToLowerCase(str) ==
  CASE str = "Hot" -> "hot"
    [] str = "12 Long Harbour Road" -> "12 long harbour road"
    [] str = "12 LONG HARBOUR ROAD" -> "12 long harbour road"
    [] OTHER -> str

\* (lead.address || '').slice(0, 20): an address is held as a record whose
\* field street is its first 20 characters
AddressHead(lead) ==
  IF Has(lead, "address") /\ Has(lead.address, "street") THEN lead.address.street ELSE ""

\* `${lead.name.toLowerCase()}_${(lead.address || '').slice(0, 20).toLowerCase()}`
DedupKey(lead) == <<ToLowerCase(lead.name), "_", ToLowerCase(AddressHead(lead))>>

\* lead.totalReviews > existing.totalReviews; false when one is undefined
MoreReviews(lead, existing) ==
  Has(lead, "totalReviews") /\ Has(existing, "totalReviews")
    /\ lead.totalReviews > existing.totalReviews

\* leads.filter with the Map `seen`: a lead is kept when its key is new, and
\* also when it has more reviews than the lead the Map holds for its key,
\* which it then replaces in the Map; lead.name.toLowerCase() throws a
\* TypeError when a lead has no name
deduplicateLeads(input) ==
  LET RECURSIVE Seen(_)
      RECURSIVE Out(_)
      Keep(k) ==
        LET key == DedupKey(input[k])
        IN IF key \in DOMAIN Seen(k - 1)
           THEN MoreReviews(input[k], Seen(k - 1)[key])
           ELSE TRUE
      Seen(k) ==
        IF k = 0 THEN <<>>
        ELSE IF Keep(k)
             THEN LET key == DedupKey(input[k])
                  IN [x \in DOMAIN Seen(k - 1) \cup {key} |->
                        IF x = key THEN input[k] ELSE Seen(k - 1)[x]]
             ELSE Seen(k - 1)
      Out(k) ==
        IF k = 0 THEN <<>>
        ELSE IF Keep(k) THEN Append(Out(k - 1), input[k]) ELSE Out(k - 1)
  IN IF \E k \in 1..Len(input) : ~Has(input[k], "name") THEN Throw("TypeError")
     ELSE Return(Out(Len(input)))

----------------------------------------------------------------------------
(* LeadEnricher *)

\* averageRating: the mean as an exact quotient num / den
averageRating(reviews) ==
  LET n == Len(reviews)
      RECURSIVE Sum(_)
      Sum(k) == IF k = 0 THEN 0
                ELSE Sum(k - 1) + (IF Has(reviews[k], "rating") THEN reviews[k].rating ELSE 0)
  IN IF n = 0 THEN [num |-> 0, den |-> 1] ELSE [num |-> Sum(n), den |-> n]

\* sorting the array itself, not a copy of it
ReviewsSortedInPlace(reviews) ==
  IF IsNullish(reviews) \/ Len(reviews) < 5 THEN reviews ELSE SortByDateDesc(reviews)

\* what calculateReviewTrend leaves in the array it was given: it sorts
\* [...reviews], a copy
ReviewsAfterTrend(reviews) == reviews

\* five reviews are not yet enough
InsufficientDataUpToFive(reviews) == IsNullish(reviews) \/ Len(reviews) <= 5

\* !reviews || reviews.length < 5
InsufficientData(reviews) == IsNullish(reviews) \/ Len(reviews) < 5

\* the trend of the change as it is reported, rounded to hundredths
trendOfReported(cn, cd) ==
  LET change == ToFixed2(cn, cd)
  IN IF change < 0 - 30 THEN "worsening"
     ELSE IF change > 30 THEN "improving"
     ELSE "stable"

\* change < -0.3 ? 'worsening' : change > 0.3 ? 'improving' : 'stable', for the
\* change cn / cd, cd > 0, before it is rounded
trendOf(cn, cd) ==
  IF 10 * cn < (-3) * cd THEN "worsening"
  ELSE IF 10 * cn > 3 * cd THEN "improving"
  ELSE "stable"

calculateReviewTrend(reviews) ==
  IF InsufficientData(reviews)
  THEN [trend |-> "insufficient_data", change |-> 0]
  ELSE
    LET sorted    == SortByDateDesc(reviews)
        mid       == MathFloor(Len(sorted), 2)
        recentAvg == averageRating(SubSeq(sorted, 1, mid))
        olderAvg  == averageRating(SubSeq(sorted, mid + 1, Len(sorted)))
        \* change = recentAvg - olderAvg = cn / cd
        cn        == recentAvg.num * olderAvg.den - olderAvg.num * recentAvg.den
        cd        == recentAvg.den * olderAvg.den
    IN [trend      |-> trendOf(cn, cd),
        change     |-> ToFixed2(cn, cd),
        recentAvg  |-> ToFixed2(recentAvg.num, recentAvg.den),
        olderAvg   |-> ToFixed2(olderAvg.num, olderAvg.den),
        trendScore |-> IF 2 * cn < (-1) * cd THEN "critical"
                       ELSE IF 10 * cn < (-3) * cd THEN "high"
                       ELSE "moderate"]

\* the quotient without the cap
sizeScoreUncapped(total) == total

\* Math.min(total / 10, 100), in tenths
sizeScore(total) == Min(total, 10 * 100)

estimateBusinessSize(lead) ==
  LET total == IF Has(lead, "totalReviews") THEN lead.totalReviews ELSE 0
      size  == IF total < 10 THEN "very_small"
               ELSE IF total < 50 THEN "small"
               ELSE IF total < 200 THEN "medium"
               ELSE IF total < 500 THEN "large"
               ELSE "very_large"
      category == IF total < 10 THEN "Micro (<10 reviews)"
                  ELSE IF total < 50 THEN "Small (10-50 reviews)"
                  ELSE IF total < 200 THEN "Medium (50-200 reviews)"
                  ELSE IF total < 500 THEN "Large (200-500 reviews)"
                  ELSE "Very Large (500+ reviews)"
  IN [size |-> size, category |-> category, totalReviews |-> total,
      sizeScore |-> sizeScore(total)]

\* r => r.ownerResponse || r.response
HasOwnerResponse(r) == Has(r, "ownerResponse") \/ Has(r, "response")

\* rate is in hundredths; percentage is the string `${n}%`, held as <<n, "%">>
calculateResponseRate(reviews) ==
  IF IsNullish(reviews) \/ Len(reviews) = 0
  THEN [rate |-> 0, responded |-> 0, total |-> 0, percentage |-> <<0, "%">>]
  ELSE
    LET responded == Len(SelectSeq(reviews, HasOwnerResponse))
        total     == Len(reviews)
    IN [rate       |-> ToFixed2(responded, total),
        responded  |-> responded,
        total      |-> total,
        percentage |-> <<MathRound(100 * responded, total), "%">>,
        engagement |-> IF 10 * responded > 7 * total THEN "high"
                       ELSE IF 10 * responded > 3 * total THEN "moderate"
                       ELSE "low"]

\* the complaint keywords, in the order of the array literal
keywords ==
  <<"slow", "rude", "dirty", "cold", "wait", "poor", "terrible", "worst",
    "disappointed", "never", "avoid", "bad", "horrible", "disgusting",
    "unprofessional", "delayed", "broken", "outdated", "overpriced">>

\* (review.text || '').toLowerCase(): a text is held as the set of the
\* keywords it includes
TextOf(review) == IF Has(review, "text") THEN review.text ELSE {}

\* a rating of 3 counts as low as well
IsLowRatedUpToThree(r) == Has(r, "rating") /\ r.rating <= 3

\* r => r.rating <= 2
IsLowRated(r) == Has(r, "rating") /\ r.rating <= 2

\* r => r.rating <= 2 || r.sentiment?.sentiment === 'negative'
IsNegativeReview(r) ==
  \/ IsLowRated(r)
  \/ Has(r, "sentiment") /\ Has(r.sentiment, "sentiment")
       /\ r.sentiment.sentiment = "negative"

\* the entries of the Map `found`, in insertion order: a keyword is inserted
\* when the first negative review that includes it is visited, keywords of
\* one review in the order of `keywords`
FoundEntries(negativeReviews) ==
  LET n        == Len(negativeReviews)
      idx(w)   == CHOOSE k \in 1..Len(keywords) : keywords[k] = w
      texts    == [i \in 1..n |-> TextOf(negativeReviews[i])]
      words    == {keywords[k] : k \in 1..Len(keywords)} \cap UNION {texts[i] : i \in 1..n}
      first(w) == CHOOSE i \in 1..n : w \in texts[i] /\ \A j \in 1..(i - 1) : w \notin texts[j]
      count(w) == Cardinality({i \in 1..n : w \in texts[i]})
      rank(w)  == Cardinality({v \in words :
                      \/ first(v) < first(w)
                      \/ first(v) = first(w) /\ idx(v) < idx(w)}) + 1
  IN [k \in 1..Cardinality(words) |->
        LET w == CHOOSE v \in words : rank(v) = k IN <<w, count(w)>>]

\* reviews.filter throws a TypeError when reviews is undefined or null
extractNegativeKeywords(reviews) ==
  IF IsNullish(reviews) THEN Throw("TypeError")
  ELSE
    LET negativeReviews == SelectSeq(reviews, IsNegativeReview)
        entries == FoundEntries(negativeReviews)
        top     == Slice0(SortDesc(entries, [i \in 1..Len(entries) |-> entries[i][2]]), 5)
    IN IF Len(negativeReviews) = 0 THEN Return(<<>>)
       ELSE Return([i \in 1..Len(top) |-> [word |-> top[i][1], count |-> top[i][2]]])

\* what getLastNegativeReviewDate leaves in the array it was given: it sorts
\* the array that filter returned
ReviewsAfterLastNegative(reviews) == reviews

\* reviews.filter throws a TypeError when reviews is undefined or null
getLastNegativeReviewDate(reviews) ==
  IF IsNullish(reviews) THEN Throw("TypeError")
  ELSE
    LET negative == SortByDateDesc(SelectSeq(reviews, IsLowRated))
        daysAgo  == MathFloor(now - negative[1].date, Day)
    IN IF Len(negative) = 0 THEN Return(null)
       ELSE Return([date    |-> negative[1].date,
                    daysAgo |-> daysAgo,
                    recency |-> IF daysAgo < 7 THEN "very_recent"
                                ELSE IF daysAgo < 30 THEN "recent"
                                ELSE "old"])

\* a url is held as [domain |-> [host |-> h]], h what is left of it after the
\* scheme, "www." and the path are removed; no domain field when that is ''
extractDomain(url) == IF Has(url, "domain") THEN url.domain ELSE null

\* the phone is left out of the test
HasContactNoPhone(phone, email, website) == email # null \/ website # null

\* !!(contact.phone || contact.email || contact.website)
HasContact(phone, email, website) == phone # null \/ email # null \/ website # null

\* lead.phone, lead.email, lead.website are held as records (a string's
\* parts); an address as [phone |-> p] when the phone pattern matches p in it
enrichContactInfo(lead) ==
  LET phone0   == IF Has(lead, "phone") THEN lead.phone ELSE null
      email0   == IF Has(lead, "email") THEN lead.email ELSE null
      website  == IF Has(lead, "website") THEN lead.website ELSE null
      phone    == IF phone0 = null /\ Has(lead, "address") /\ Has(lead.address, "phone")
                  THEN [number |-> lead.address.phone] ELSE phone0
      domain   == IF website = null THEN null ELSE extractDomain(website)
      estimate == email0 = null /\ website # null /\ domain # null
      email    == IF estimate THEN [local |-> "info", domain |-> domain] ELSE email0
      contact  == [phone |-> phone, email |-> email, website |-> website,
                   hasContact |-> HasContact(phone, email, website)]
  IN IF estimate THEN Spread(contact, "emailType", "estimated") ELSE contact

\* the enrichment block of one lead; the first extractor that throws ends
\* the evaluation of the object literal
EnrichmentOf(lead) ==
  LET reviews == GetArray(lead, "reviews")
      kw      == extractNegativeKeywords(reviews)
      last    == getLastNegativeReviewDate(reviews)
  IN IF Threw(kw) THEN kw
     ELSE IF Threw(last) THEN last
     ELSE Return([contactInfo            |-> enrichContactInfo(lead),
                  reviewTrend            |-> calculateReviewTrend(reviews),
                  businessSize           |-> estimateBusinessSize(lead),
                  responseRate           |-> calculateResponseRate(reviews),
                  negativeReviewKeywords |-> kw.value,
                  lastNegativeReview     |-> last.value])

\* leads.map(lead => ({ ...lead, enrichment: {...} })); an exception in the
\* callback leaves map, and enrichLeads
enrichLeads(input) ==
  IF \E i \in 1..Len(input) : Threw(EnrichmentOf(input[i]))
  THEN LET i == CHOOSE j \in 1..Len(input) :
                  /\ Threw(EnrichmentOf(input[j]))
                  /\ \A k \in 1..(j - 1) : ~Threw(EnrichmentOf(input[k]))
       IN EnrichmentOf(input[i])
  ELSE Return([i \in 1..Len(input) |->
                 Spread(input[i], "enrichment", EnrichmentOf(input[i]).value)])

\* the caller's array after enrichLeads: map builds a new array of new
\* objects, and no extractor writes to a review list
LeadsAfterEnrich(input) ==
  [i \in 1..Len(input) |->
     IF ~IsNullish(GetArray(input[i], "reviews"))
     THEN [input[i] EXCEPT !.reviews = ReviewsAfterLastNegative(ReviewsAfterTrend(@))]
     ELSE input[i]]
----------------------------------------------------------------------------
(* LeadScorer *)

\* the weights of the README: business size 0-30, no rating decline
weightsOfReadme ==
  [recentNegatives |-> 40, lowResponseRate |-> 30, businessSize |-> 30,
   ratingDecline |-> 0]

weights ==
  [recentNegatives |-> 40, lowResponseRate |-> 30, businessSize |-> 20,
   ratingDecline |-> 10]

\* the reviews that are at most 30 days old and rated 2 or less
countRecentNegatives(lead) ==
  IF IsNullish(GetArray(lead, "reviews")) \/ Len(lead.reviews) = 0 THEN 0
  ELSE
    LET thirtyDaysAgo == now - 30 * Day
        isRecentNegative(review) == review.date >= thirtyDaysAgo /\ IsLowRated(review)
    IN Len(SelectSeq(lead.reviews, isRecentNegative))

\* critical only above 80
getPriorityLevelStrict(score) ==
  IF score > 80 THEN "critical"
  ELSE IF score >= 60 THEN "high"
  ELSE IF score >= 40 THEN "medium"
  ELSE "low"

getPriorityLevel(score) ==
  IF score >= 80 THEN "critical"
  ELSE IF score >= 60 THEN "high"
  ELSE IF score >= 40 THEN "medium"
  ELSE "low"

\* 1. Recent negative spike: the entry of details, none when no points
recentNegativesDetail(recentNegatives) ==
  IF recentNegatives >= 5
  THEN [recentNegatives |-> [count |-> recentNegatives, points |-> weights.recentNegatives]]
  ELSE IF recentNegatives >= 3
  THEN [recentNegatives |-> [count  |-> recentNegatives,
                             points |-> MathRound(weights.recentNegatives * 6, 10)]]
  ELSE IF recentNegatives >= 1
  THEN [recentNegatives |-> [count  |-> recentNegatives,
                             points |-> MathRound(weights.recentNegatives * 3, 10)]]
  ELSE <<>>

\* a default of 1: a record with no known rate is taken to answer every review
responseRateOrOne(lead) ==
  LET rr == Get(Get(lead, "enrichment"), "responseRate")
  IN IF Has(rr, "rate") /\ rr.rate # 0 THEN rr.rate ELSE 100

\* lead.enrichment?.responseRate?.rate || 0, in hundredths
responseRateOf(lead) ==
  LET rr == Get(Get(lead, "enrichment"), "responseRate")
  IN IF Has(rr, "rate") /\ rr.rate # 0 THEN rr.rate ELSE 0

\* 2. Low response rate
lowResponseRateDetail(responseRate) ==
  IF responseRate < 20
  THEN [lowResponseRate |-> [rate |-> responseRate, points |-> weights.lowResponseRate]]
  ELSE IF responseRate < 50
  THEN [lowResponseRate |-> [rate   |-> responseRate,
                             points |-> MathRound(weights.lowResponseRate * 5, 10)]]
  ELSE <<>>

\* 3. Large business
businessSizeDetail(reviewCount) ==
  IF reviewCount > 100
  THEN [businessSize |-> [reviews |-> reviewCount, points |-> weights.businessSize]]
  ELSE IF reviewCount > 50
  THEN [businessSize |-> [reviews |-> reviewCount,
                          points  |-> MathRound(weights.businessSize * 7, 10)]]
  ELSE IF reviewCount > 20
  THEN [businessSize |-> [reviews |-> reviewCount,
                          points  |-> MathRound(weights.businessSize * 4, 10)]]
  ELSE <<>>

\* an improving trend takes the weight off the score
ratingDeclineOrPenalty(rt) ==
  LET isTrend(t)      == Has(rt, "trend") /\ rt.trend = t
      isTrendScore(t) == Has(rt, "trendScore") /\ rt.trendScore = t
      inputs == [f \in DOMAIN rt \cap {"trend", "trendScore"} |-> rt[f]]
  IN IF isTrend("worsening") \/ isTrendScore("critical")
     THEN [ratingDecline |-> Spread(inputs, "points", weights.ratingDecline)]
     ELSE IF isTrendScore("high")
     THEN [ratingDecline |-> Spread(inputs, "points", MathRound(weights.ratingDecline * 5, 10))]
     ELSE IF isTrend("improving")
     THEN [ratingDecline |-> Spread(inputs, "points", 0 - weights.ratingDecline)]
     ELSE <<>>

\* 4. Rating declining; rt is lead.enrichment?.reviewTrend.  The entry holds
\* trend and trendScore as they are: a field that is undefined is left out
ratingDeclineDetail(rt) ==
  LET isTrend(t)      == Has(rt, "trend") /\ rt.trend = t
      isTrendScore(t) == Has(rt, "trendScore") /\ rt.trendScore = t
      inputs == [f \in DOMAIN rt \cap {"trend", "trendScore"} |-> rt[f]]
  IN IF isTrend("worsening") \/ isTrendScore("critical")
     THEN [ratingDecline |-> Spread(inputs, "points", weights.ratingDecline)]
     ELSE IF isTrendScore("high")
     THEN [ratingDecline |-> Spread(inputs, "points", MathRound(weights.ratingDecline * 5, 10))]
     ELSE <<>>

\* the points held by the entries of details
PointsOf(details) ==
  LET p(f) == IF Has(details, f) THEN details[f].points ELSE 0
  IN p("recentNegatives") + p("lowResponseRate") + p("businessSize") + p("ratingDecline")

calculateLeadScore(lead) ==
  LET details == recentNegativesDetail(countRecentNegatives(lead))
                 @@ lowResponseRateDetail(responseRateOf(lead))
                 @@ businessSizeDetail(IF Has(lead, "totalReviews") THEN lead.totalReviews ELSE 0)
                 @@ ratingDeclineDetail(Get(Get(lead, "enrichment"), "reviewTrend"))
      score   == PointsOf(details)
  IN [score    |-> Min(score, 100),
      details  |-> details,
      priority |-> getPriorityLevel(score)]

\* { ...lead, score, scoringDetails, priority }
ScoredLead(lead) ==
  LET scoring == calculateLeadScore(lead)
  IN Spread(Spread(Spread(lead, "score", scoring.score),
                   "scoringDetails", scoring.details),
            "priority", scoring.priority)

\* leads.map(...) and then scored.sort((a, b) => b.score - a.score)
scoreAllLeads(input) ==
  LET scoredLeads == [i \in 1..Len(input) |-> ScoredLead(input[i])]
  IN SortDesc(scoredLeads, [i \in 1..Len(input) |-> scoredLeads[i].score])

\* the caller's array after scoreAllLeads: it is the array that map returned
\* that is sorted
LeadsAfterScore(input) == input
----------------------------------------------------------------------------
(* LeadExporter *)

\* `${obj.f}` in a template literal: the value, "undefined" for a missing field
Interpolate(obj, f) == IF Has(obj, f) THEN obj[f] ELSE "undefined"

\* leads.filter(l => l.priority === p).length
PriorityCount(input, p) ==
  Len(SelectSeq(input, LAMBDA l : Has(l, "priority") /\ l.priority = p))

\* the first five leads, whatever topCount is
TopFive(input, topCount) == Slice0(input, 5)

\* leads.slice(0, topCount)
Top(input, topCount) == Slice0(input, topCount)

\* the digest text, held as its lines (joined with '\n'), a line as the
\* literal parts and the interpolated values of its template (the dash of
\* the entry lines is written -)
generateDigest(input, topCount) ==
  LET top == Top(input, topCount)
  IN << <<"LeadMiner Daily Digest">>,
        <<"Total leads: ", Len(input)>>,
        <<"Critical: ", PriorityCount(input, "critical"),
          " | High: ", PriorityCount(input, "high"),
          " | Medium: ", PriorityCount(input, "medium"),
          " | Low: ", PriorityCount(input, "low")>>,
        <<>>,
        <<"Top ", topCount, " Leads:">> >>
     \o [idx \in 1..Len(top) |->
           <<idx, ". ", Interpolate(top[idx], "name"),
             " - Score ", Interpolate(top[idx], "score"),
             " (", Interpolate(top[idx], "priority"), ")">>]

\* the fields flattenLeadForCsv copies from the lead as they are; a field
\* the lead does not have is undefined in the flat record, that is, absent
CopiedFields ==
  {"id", "name", "source", "category", "rating", "totalReviews",
   "priority", "address", "phone", "email", "website", "url", "scrapedAt"}

\* businessSize is read from reviewTrend, the line above it
SubBlockReviewTrend(lead, f) ==
  LET enrichment == Get(lead, "enrichment")
      g == IF f = "businessSize" THEN "reviewTrend" ELSE f
  IN IF Has(enrichment, g) /\ enrichment[g] # null THEN enrichment[g] ELSE <<>>

\* lead.enrichment?.f || {}, f holding an object: {} when the enrichment or
\* the sub-block is missing or null
SubBlock(lead, f) ==
  LET enrichment == Get(lead, "enrichment")
  IN IF Has(enrichment, f) /\ enrichment[f] # null THEN enrichment[f] ELSE <<>>

\* lead.enrichment?.negativeReviewKeywords || []
KeywordsOf(lead) ==
  LET found == GetArray(Get(lead, "enrichment"), "negativeReviewKeywords")
  IN IF IsNullish(found) THEN <<>> ELSE found

\* lastNegative.daysAgo ?? null
DaysAgoOf(lastNegative) ==
  IF Has(lastNegative, "daysAgo") THEN lastNegative.daysAgo ELSE null

\* the score column holds the points of the first rubric component
ScoreColumnOfDetails(lead) ==
  IF Has(lead, "scoringDetails") /\ Has(lead.scoringDetails, "recentNegatives")
  THEN [score |-> lead.scoringDetails.recentNegatives.points]
  ELSE <<>>

\* score: lead.score
ScoreColumn(lead) == IF Has(lead, "score") THEN [score |-> lead.score] ELSE <<>>

\* negativeKeywords is the text `word:count, word:count, ...`, held as the
\* sequence of its <<word, ":", count>> parts; '' is <<>>
flattenLeadForCsv(lead) ==
  LET trend        == SubBlock(lead, "reviewTrend")
      responseRate == SubBlock(lead, "responseRate")
      businessSize == SubBlock(lead, "businessSize")
      lastNegative == SubBlock(lead, "lastNegativeReview")
      found        == KeywordsOf(lead)
      copied  == [f \in CopiedFields \cap DOMAIN lead |-> lead[f]]
  IN copied
     @@ ScoreColumn(lead)
     @@ (IF Has(trend, "trend") THEN [reviewTrend |-> trend.trend] ELSE <<>>)
     @@ (IF Has(trend, "change") THEN [trendChange |-> trend.change] ELSE <<>>)
     @@ (IF Has(businessSize, "category")
         THEN [businessSize |-> businessSize.category] ELSE <<>>)
     @@ [responseRate |-> IF Has(responseRate, "percentage")
                          THEN responseRate.percentage ELSE null,
         lastNegativeReviewDate |-> IF Has(lastNegative, "date")
                                    THEN lastNegative.date ELSE null,
         lastNegativeReviewDaysAgo |-> DaysAgoOf(lastNegative),
         negativeKeywords |-> [k \in 1..Len(found) |->
                                 <<found[k].word, ":", found[k].count>>]]

\* process.env.WHATSAPP_WEBHOOK_URL: a variable that is not set reads as
\* undefined, held as the empty string, which is as falsy
WebhookUrls == {"", "https://hooks.example/whatsapp"}

\* a request is made whatever the configuration is
IsConfiguredAlways(webhookUrl) == TRUE

\* !webhookUrl
IsConfigured(webhookUrl) == webhookUrl # ""

\* what `await fetch(...)` ends with: a response, or an exception
FetchOutcomes ==
  {[threw |-> FALSE, ok |-> TRUE, status |-> 200],
   [threw |-> FALSE, ok |-> FALSE, status |-> 500],
   [threw |-> TRUE, message |-> <<"fetch failed">>]}

\* the response is not looked at
AlertResultUnchecked(outcome) ==
  IF outcome.threw THEN [sent |-> FALSE, reason |-> outcome.message]
  ELSE [sent |-> TRUE]

\* the try / catch of sendWhatsappAlert after fetch has settled; a reason is
\* held as the parts of its text
AlertResult(outcome) ==
  IF outcome.threw THEN [sent |-> FALSE, reason |-> outcome.message]
  ELSE IF ~outcome.ok THEN [sent |-> FALSE, reason |-> <<"HTTP ", outcome.status>>]
  ELSE [sent |-> TRUE]

\* the result when no webhook is configured
NotConfigured == [sent |-> FALSE, reason |-> <<"WHATSAPP_WEBHOOK_URL not set">>]

----------------------------------------------------------------------------
(* Inputs *)

MaxReviews      == 5     \* reviews of a record that is built review by review
MaxLeads        == 3     \* records of a scraped batch
MaxNegatives    == 6     \* recent negative reviews of a record given to the scorer
MaxTotalReviews == 1100  \* totalReviews given to estimateBusinessSize
MaxTopCount     == 5     \* topCount given to generateDigest
MaxTrendReviews == 15    \* reviews of a record given to calculateReviewTrend

\* reviews as normalizeGoogleMapsData / normalizeTripAdvisorData / generateReviews
\* build them; dates are relative to the time the run starts, 0
reviewA == [rating |-> 1, date |-> 0 - 5 * Day, text |-> {"slow", "rude"},
            sentiment |-> [score |-> 0 - 3, sentiment |-> "negative"]]
reviewB == [rating |-> 2, date |-> 0 - 40 * Day, text |-> {"rude"},
            sentiment |-> [score |-> 0, sentiment |-> "neutral"]]
reviewC == [rating |-> 3, date |-> 0 - (5 * Day + 1), text |-> {},
            sentiment |-> [score |-> 0, sentiment |-> "neutral"], ownerResponse |-> TRUE]
reviewD == [rating |-> 5, date |-> 0 - 40 * Day, text |-> {},
            sentiment |-> [score |-> 3, sentiment |-> "positive"], response |-> TRUE]
\* four stars, and a text that analyzeSentiment scored below zero
reviewE == [rating |-> 4, date |-> 0 - 10 * Day, text |-> {"wait"},
            sentiment |-> [score |-> 0 - 1, sentiment |-> "negative"]]

ReviewPool == {reviewA, reviewB, reviewC, reviewD, reviewE}

\* n copies of x
Copies(n, x) == [i \in 1..n |-> x]

\* the scraped records a batch is made of; the second is the first as another
\* provider lists it, the last one has no reviews field
Catalogue ==
  {[name |-> "hot", totalReviews |-> 250, phone |-> [number |-> "555"],
    address |-> [street |-> "12 Long Harbour Road", rest |-> ", Unit 1"],
    reviews |-> Copies(5, reviewA) \o <<reviewE>>],
   [name |-> "Hot", totalReviews |-> 300,
    address |-> [street |-> "12 LONG HARBOUR ROAD", rest |-> ", SUITE 2"],
    reviews |-> <<reviewB>>],
   [name |-> "new", totalReviews |-> 5, reviews |-> <<>>],
   [name |-> "quiet", totalReviews |-> 5, reviews |-> <<reviewB>>],
   [name |-> "declining", totalReviews |-> 60, website |-> [domain |-> [host |-> "declining.com"]],
    reviews |-> <<reviewD, reviewC, reviewD, reviewC, reviewD>>],
   [name |-> "malformed", totalReviews |-> 5]}

RECURSIVE BatchesOf(_)
BatchesOf(n) ==
  IF n = 0 THEN {<<>>}
  ELSE BatchesOf(n - 1)
       \cup {Append(b, Spread(c, "id", n)) : b \in {x \in BatchesOf(n - 1) : Len(x) = n - 1},
                                            c \in Catalogue}

\* the records the scorer may be given: what loadLeads parses from
\* output/enriched-leads.json, whatever wrote it
ScorerTotals == {0, 20, 21, 50, 51, 100, 101, 250}

ScorerRates == {0, 19, 20, 49, 50, 100}

ScorerTrends ==
  {[trend |-> "insufficient_data", change |-> 0],
   [trend |-> "stable", change |-> 0, trendScore |-> "moderate"],
   [trend |-> "improving", change |-> 50, trendScore |-> "moderate"],
   [trend |-> "worsening", change |-> 0 - 33, trendScore |-> "high"],
   [trend |-> "worsening", change |-> 0 - 100, trendScore |-> "critical"],
   [trend |-> "stable", change |-> 0, trendScore |-> "high"],
   [trend |-> "stable", change |-> 0, trendScore |-> "critical"]}

ScorerEnrichments ==
  {[responseRate |-> [rate |-> r], reviewTrend |-> t] : r \in ScorerRates, t \in ScorerTrends}
  \cup {[reviewTrend |-> t] : t \in ScorerTrends}
  \cup {[responseRate |-> [rate |-> r]] : r \in ScorerRates}

ScorerReviews ==
  {Copies(k, reviewA) \o Copies(m, reviewE) : k \in 0..MaxNegatives, m \in 0..1}
  \cup {<<reviewB>>}

ScorerLeads ==
  LET base == {[id |-> 1, reviews |-> rs] : rs \in ScorerReviews} \cup {[id |-> 1]}
      sized == base \cup {Spread(b, "totalReviews", t) : b \in base, t \in ScorerTotals}
  IN sized \cup {Spread(l, "enrichment", e) : l \in sized, e \in ScorerEnrichments}

----------------------------------------------------------------------------
(* The run *)

Start ==
  /\ pc = "start"
  /\ now = 0
  /\ leads = <<>>
  /\ enriched = <<>>
  /\ scored = <<>>
  /\ ret = null
  /\ run = "none"
  /\ files = <<>>
  /\ requests = <<>>
  /\ digest = <<>>
  /\ result = null

\* scraper.scrapeAll: the leads of the two providers, deduplicated, saved and
\* returned
ScrapeAll ==
  /\ pc = "start"
  /\ \E allLeads \in BatchesOf(MaxLeads) :
       LET uniqueLeads == deduplicateLeads(allLeads).value
       IN /\ leads' = uniqueLeads
          /\ files' = Spread(files, "scraped-leads.json", uniqueLeads)
  /\ run' = "pipeline"
  /\ pc' = "loaded"
  /\ UNCHANGED <<now, enriched, scored, ret, requests, digest, result>>

\* if (scraped.length === 0) process.exit(1)
ExitNoLeads ==
  /\ pc = "loaded"
  /\ Len(leads) = 0
  /\ pc' = "exit"
  /\ UNCHANGED <<now, leads, enriched, scored, ret, run, files, requests, digest, result>>

\* enricher.enrichLeads(leads), and in a run of a script saveEnrichedLeads
\* after it; an exception ends the run before the file is written
EnrichLeads ==
  /\ pc = "loaded"
  /\ Len(leads) > 0
  /\ LET c == enrichLeads(leads)
     IN IF Threw(c)
        THEN pc' = "failed" /\ enriched' = enriched /\ files' = files
        ELSE /\ pc' = "enriched"
             /\ enriched' = c.value
             /\ files' = IF run = "none" THEN files
                          ELSE Spread(files, "enriched-leads.json", c.value)
  /\ leads' = LeadsAfterEnrich(leads)
  /\ UNCHANGED <<now, scored, ret, run, requests, digest, result>>

\* scorer.scoreAllLeads(enriched), and in a run of a script saveScoredLeads
\* and saveTopLeads after it
ScoreAllLeads ==
  /\ pc = "enriched"
  /\ scored' = scoreAllLeads(enriched)
  /\ enriched' = LeadsAfterScore(enriched)
  /\ files' = IF run = "none" THEN files
               ELSE Spread(Spread(files, "scored-leads.json", scored'),
                           "top-leads.json", Slice0(scored', 10))
  /\ pc' = "scored"
  /\ UNCHANGED <<now, leads, ret, run, requests, digest, result>>

\* the leads generateDemoLeads builds: never none, each with its reviews,
\* source 'demo'
DemoBatches ==
  {[i \in 1..Len(b) |-> Spread(b[i], "source", "demo")] :
     b \in {x \in BatchesOf(MaxLeads) :
              Len(x) > 0 /\ \A i \in 1..Len(x) : Has(x[i], "reviews")}}

\* runDemo: generateDemoLeads(50), written to output/scraped-leads.json
GenerateDemoLeads ==
  /\ pc = "start"
  /\ \E batch \in DemoBatches :
       /\ leads' = batch
       /\ files' = Spread(files, "scraped-leads.json", batch)
  /\ run' = "demo"
  /\ pc' = "loaded"
  /\ UNCHANGED <<now, enriched, scored, ret, requests, digest, result>>

\* what output/scored-leads.json may hold: nothing (loadLeads then returns
\* []), or what an earlier run scored
ScoredBatches ==
  {scoreAllLeads(enrichLeads(b).value) :
     b \in {x \in BatchesOf(MaxLeads) : ~Threw(enrichLeads(x))}}

\* the exporter CLI: loadLeads('output/scored-leads.json'), and
\* process.exit(1) when there are none
ExporterLoadLeads ==
  /\ pc = "start"
  /\ \E batch \in ScoredBatches :
       /\ scored' = batch
       /\ pc' = IF Len(batch) = 0 THEN "exit" ELSE "scored"
  /\ run' = "exporter"
  /\ UNCHANGED <<now, leads, enriched, ret, files, requests, digest, result>>

\* the entry points that export what was scored
Exports == run \in {"pipeline", "demo", "exporter"}

\* await exporter.exportToCsv(scored, 'output/leads.csv')
ExportToCsv ==
  /\ pc = "scored"
  /\ Exports
  /\ files' = Spread(files, "leads.csv",
                     [i \in 1..Len(scored) |-> flattenLeadForCsv(scored[i])])
  /\ pc' = "exported"
  /\ UNCHANGED <<now, leads, enriched, scored, ret, run, requests, digest, result>>

\* csvWriter.writeRecords rejects (the file cannot be written): the
\* exception leaves the run
ExportToCsvFails ==
  /\ pc = "scored"
  /\ Exports
  /\ pc' = "failed"
  /\ UNCHANGED <<now, leads, enriched, scored, ret, run, files, requests, digest, result>>

\* const digest = exporter.generateDigest(scored), topCount = 5 by default
GenerateDigest ==
  /\ pc = "exported"
  /\ digest' = generateDigest(scored, 5)
  /\ pc' = "digest"
  /\ UNCHANGED <<now, leads, enriched, scored, ret, run, files, requests, result>>

\* exporter.sendWhatsappAlert(digest) up to its await: it returns at once
\* when no webhook is configured, and issues the request otherwise
SendWhatsappAlert ==
  /\ pc = "digest"
  /\ \E webhookUrl \in WebhookUrls :
       IF IsConfigured(webhookUrl)
       THEN /\ requests' = Append(requests, [url |-> webhookUrl, method |-> "POST",
                                             body |-> [message |-> digest]])
            /\ pc' = "fetching"
            /\ result' = result
       ELSE /\ result' = NotConfigured
            /\ pc' = "delivered"
            /\ requests' = requests
  /\ UNCHANGED <<now, leads, enriched, scored, ret, run, files, digest>>

\* fetch settles, and sendWhatsappAlert returns
FetchSettles ==
  /\ pc = "fetching"
  /\ \E outcome \in FetchOutcomes :
       /\ requests' = [requests EXCEPT ![Len(requests)] = Spread(@, "outcome", outcome)]
       /\ result' = AlertResult(outcome)
  /\ pc' = "delivered"
  /\ UNCHANGED <<now, leads, enriched, scored, ret, run, files, digest>>

\* the digest is saved only when it was not sent ("Saved locally instead")
SaveDigestUnlessSent ==
  /\ pc = "delivered"
  /\ ~result.sent
  /\ files' = Spread(files, "whatsapp-digest.txt", digest)
  /\ pc' = "done"
  /\ UNCHANGED <<now, leads, enriched, scored, ret, run, requests, digest, result>>

\* exporter.saveDigest(digest, 'output/whatsapp-digest.txt'), after the log
\* line that reads result.sent
SaveDigest ==
  /\ pc = "delivered"
  /\ files' = Spread(files, "whatsapp-digest.txt", digest)
  /\ pc' = "done"
  /\ UNCHANGED <<now, leads, enriched, scored, ret, run, requests, digest, result>>

Init == Start

Next ==
  \/ ScrapeAll
  \/ GenerateDemoLeads
  \/ ExporterLoadLeads
  \/ ExitNoLeads
  \/ EnrichLeads
  \/ ScoreAllLeads
  \/ ExportToCsv
  \/ ExportToCsvFails
  \/ GenerateDigest
  \/ SendWhatsappAlert
  \/ FetchSettles
  \/ SaveDigest

Spec == Init /\ [][Next]_vars

\* the run goes on after sendWhatsappAlert has returned: nothing between the
\* return and saveDigest waits for anything
SpecLive == Spec /\ WF_vars(SaveDigest)
----------------------------------------------------------------------------
(* One record, built review by review, through the stages and through the  *)
(* extractors called one by one                                            *)

\* a scraped record before its reviews are known; reviews may be missing
NewLeads ==
  {[id |-> 1, totalReviews |-> t, reviews |-> <<>>] : t \in {5, 250}}
  \cup {[id |-> 1, totalReviews |-> 5], [id |-> 1, totalReviews |-> 5, reviews |-> nullArray]}

NewLead ==
  /\ pc = "start"
  /\ \E lead \in NewLeads : leads' = <<lead>>
  /\ pc' = "loaded"
  /\ UNCHANGED <<now, enriched, scored, ret, run, files, requests, digest, result>>

AddReview ==
  /\ pc = "loaded"
  /\ Len(leads) = 1
  /\ ~IsNullish(GetArray(leads[1], "reviews"))
  /\ Len(leads[1].reviews) < MaxReviews
  /\ \E review \in ReviewPool :
       leads' = <<[leads[1] EXCEPT !.reviews = Append(@, review)]>>
  /\ UNCHANGED <<pc, now, enriched, scored, ret, run, files, requests, digest, result>>

\* ret after a direct call of method fn that ended with completion c
Called(fn, c) ==
  /\ pc = "loaded"
  /\ Len(leads) = 1
  /\ ret' = Spread(c, "fn", fn)
  /\ pc' = "called"
  /\ UNCHANGED <<now, leads, enriched, scored, run, files, requests, digest, result>>

CallCalculateReviewTrend ==
  Called("calculateReviewTrend", Return(calculateReviewTrend(GetArray(leads[1], "reviews"))))

CallCalculateResponseRate ==
  Called("calculateResponseRate", Return(calculateResponseRate(GetArray(leads[1], "reviews"))))

CallExtractNegativeKeywords ==
  Called("extractNegativeKeywords", extractNegativeKeywords(GetArray(leads[1], "reviews")))

CallGetLastNegativeReviewDate ==
  Called("getLastNegativeReviewDate", getLastNegativeReviewDate(GetArray(leads[1], "reviews")))

CallEstimateBusinessSize ==
  Called("estimateBusinessSize", Return(estimateBusinessSize(leads[1])))

NextLead ==
  \/ NewLead
  \/ AddReview
  \/ CallCalculateReviewTrend
  \/ CallCalculateResponseRate
  \/ CallExtractNegativeKeywords
  \/ CallGetLastNegativeReviewDate
  \/ EnrichLeads
  \/ ScoreAllLeads

SpecLead == Start /\ [][NextLead]_vars

\* the record went through enrichLeads and scoreAllLeads
LeadCase == pc = "scored" /\ Len(leads) = 1 /\ Len(enriched) = 1 /\ Len(scored) = 1

\* the reviews as they are without the stored sentiment field
Fields(obj, fs) == [f \in fs |-> obj[f]]

WithoutSentiment(reviews) ==
  [i \in 1..Len(reviews) |-> Fields(reviews[i], DOMAIN reviews[i] \ {"sentiment"})]

KeywordsCase ==
  /\ pc = "called" /\ ret.fn = "extractNegativeKeywords" /\ ~Threw(ret)
  /\ Len(leads) = 1 /\ ~IsNullish(GetArray(leads[1], "reviews"))

\* the position of word w in the array literal `keywords`
KeywordIndex(w) == CHOOSE k \in 1..Len(keywords) : keywords[k] = w

\* the number of reviews of rs that include w
Mentions(rs, w) == Cardinality({i \in 1..Len(rs) : w \in TextOf(rs[i])})

\* entry <<w, c>> comes before entry <<v, d>>: higher count first, equal
\* counts in the order of `keywords`
Before(w, c, v, d) == c > d \/ (c = d /\ KeywordIndex(w) < KeywordIndex(v))

\* C18: extractNegativeKeywords returns at most 5 {word, count} entries, by
\* non-increasing count, entries of equal count in the order of the keyword
\* list whatever the order of the reviews; they are the first 5 in that order,
\* and the result is empty when no review is negative.
C18_KeywordOrder ==
  KeywordsCase =>
    LET negativeReviews == SelectSeq(leads[1].reviews, IsNegativeReview)
        found == {w \in {keywords[k] : k \in 1..Len(keywords)} :
                    Mentions(negativeReviews, w) > 0}
        v == ret.value
    IN /\ Len(v) <= 5
       /\ Len(v) = Min(5, Cardinality(found))
       /\ \A i \in 1..Len(v) :
            v[i].word \in found /\ v[i].count = Mentions(negativeReviews, v[i].word)
       /\ \A i, j \in 1..Len(v) :
            i < j => Before(v[i].word, v[i].count, v[j].word, v[j].count)
       /\ \A w \in found \ {v[i].word : i \in 1..Len(v)} : \A i \in 1..Len(v) :
            Before(v[i].word, v[i].count, w, Mentions(negativeReviews, w))
       /\ Len(negativeReviews) = 0 => v = <<>>

\* C19: which reviews extractNegativeKeywords takes as negative depends on
\* rating and text only: the same reviews without their stored sentiment
\* field give the same keywords.
C19_StoredSentimentIgnored ==
  KeywordsCase =>
    ret.value = extractNegativeKeywords(WithoutSentiment(leads[1].reviews)).value

----------------------------------------------------------------------------
(* The scorer on the records it loads *)

\* scorer.loadLeads('output/enriched-leads.json')
LoadEnrichedLeads ==
  /\ pc = "start"
  /\ \E lead \in ScorerLeads : enriched' = <<lead>>
  /\ run' = "scorer"
  /\ pc' = "enriched"
  /\ UNCHANGED <<now, leads, scored, ret, files, requests, digest, result>>

NextScore == LoadEnrichedLeads \/ ScoreAllLeads

SpecScore == Start /\ [][NextScore]_vars

----------------------------------------------------------------------------
(* estimateBusinessSize on every totalReviews up to MaxTotalReviews *)

InitSize ==
  /\ pc = "loaded"
  /\ now = 0
  /\ leads \in {<<[id |-> 1, reviews |-> <<>>, totalReviews |-> t]>> : t \in 0..MaxTotalReviews}
               \cup {<<[id |-> 1, reviews |-> <<>>]>>}
  /\ enriched = <<>>
  /\ scored = <<>>
  /\ ret = null
  /\ run = "none"
  /\ files = <<>>
  /\ requests = <<>>
  /\ digest = <<>>
  /\ result = null

NextSize == CallEstimateBusinessSize

SpecSize == InitSize /\ [][NextSize]_vars
----------------------------------------------------------------------------
(* Records with up to MaxTrendReviews reviews, through the trend and the    *)
(* recency extractors and through the two stages                           *)

\* the date of the newest review of a record, around the 7 and the 30 days
\* before the run and after it
NewestDates == {Day, 0 - 7 * Day, 1 - 30 * Day, 0 - 30 * Day, 0 - (30 * Day + 1)}

\* the two ratings the reviews of a record have
RatingPairs == {<<1, 2>>, <<2, 4>>}

\* n reviews a day apart, oldest first: of the newer half a have the lower
\* rating, of the older half b have it
TrendReviews(n, a, b, pair, newest) ==
  LET mid == n \div 2
      rating(i) == IF i <= mid
                   THEN (IF i <= a THEN pair[1] ELSE pair[2])
                   ELSE (IF i - mid <= b THEN pair[1] ELSE pair[2])
  IN [k \in 1..n |->
        LET i == n + 1 - k
        IN [rating |-> rating(i), date |-> newest - (i - 1) * Day, text |-> {},
            sentiment |-> [score |-> 0, sentiment |-> "neutral"]]]

TrendLeads ==
  {[id |-> 1, totalReviews |-> 5, reviews |-> TrendReviews(n, a, b, pair, newest)] :
     <<n, a, b>> \in {t \in (0..MaxTrendReviews) \X (0..MaxTrendReviews) \X (0..MaxTrendReviews) :
                        t[2] <= t[1] \div 2 /\ t[3] <= t[1] - t[1] \div 2},
     pair \in RatingPairs, newest \in NewestDates}

LoadTrendLead ==
  /\ pc = "start"
  /\ \E lead \in TrendLeads : leads' = <<lead>>
  /\ pc' = "loaded"
  /\ UNCHANGED <<now, enriched, scored, ret, run, files, requests, digest, result>>

NextTrend ==
  \/ LoadTrendLead
  \/ CallCalculateReviewTrend
  \/ CallGetLastNegativeReviewDate
  \/ EnrichLeads
  \/ ScoreAllLeads

SpecTrend == Start /\ [][NextTrend]_vars

\* C22: for 5 or more reviews, the trend and the severity calculateReviewTrend
\* returns agree with the change it returns (rounded to 2 decimals, here in
\* hundredths): worsening iff change < -0.3, improving iff change > 0.3,
\* stable otherwise, and critical iff change < -0.5.
C22_TrendOfReportedChange ==
  pc = "called" /\ ret.fn = "calculateReviewTrend" /\ Len(leads[1].reviews) >= 5 =>
    LET v == ret.value IN
    /\ v.trend = "worsening" <=> v.change < 0 - 30
    /\ v.trend = "improving" <=> v.change > 30
    /\ v.trend = "stable" <=> (v.change >= 0 - 30 /\ v.change <= 30)
    /\ v.trendScore = "critical" <=> v.change < 0 - 50

\* C23: for a record enriched by enrichLeads, the rating-decline component is
\* 0 or the full 10 points: severity high comes with trend worsening only, and
\* scoringDetails.ratingDecline.points is never 5.
C23_DeclineAllOrNothing ==
  LeadCase =>
    LET rt == enriched[1].enrichment.reviewTrend IN
    /\ Has(rt, "trendScore") /\ rt.trendScore = "high" => rt.trend = "worsening"
    /\ Has(scored[1].scoringDetails, "ratingDecline") =>
         scored[1].scoringDetails.ratingDecline.points = 10
    /\ Has(scored[1].scoringDetails, "ratingDecline") <=> rt.trend = "worsening"

\* a change of -17/56, reported as -0.3: severity high, trend worsening, and
\* the full 10 points
C23_Witness ==
  /\ LeadCase
  /\ Len(leads[1].reviews) = 15
  /\ enriched[1].enrichment.reviewTrend.change = 0 - 30
  /\ enriched[1].enrichment.reviewTrend.trendScore = "high"
  /\ enriched[1].enrichment.reviewTrend.trend = "worsening"
  /\ scored[1].scoringDetails.ratingDecline.points = 10

\* C24: with enrichment and scoring at the same reference time, the scorer
\* counts a recent negative review if and only if lastNegativeReview is there
\* with recency very_recent or recent, also for a review rated 2 or less dated
\* 30 days before the reference time to the millisecond, and for reviews
\* dated after it.
C24_WindowsAgree ==
  LeadCase =>
    LET last == enriched[1].enrichment.lastNegativeReview IN
    (countRecentNegatives(enriched[1]) >= 1
       <=> (last # null /\ last.recency \in {"very_recent", "recent"}))

----------------------------------------------------------------------------
(* deduplicateLeads on what the two providers return *)

\* [...googleMaps, ...tripAdvisor], and a lead whose provider gave no name
AllLeads ==
  BatchesOf(MaxLeads) \cup {<<[id |-> 1, totalReviews |-> 5, reviews |-> <<>>]>>}

ScrapeProviders ==
  /\ pc = "start"
  /\ \E allLeads \in AllLeads : leads' = allLeads
  /\ pc' = "loaded"
  /\ UNCHANGED <<now, enriched, scored, ret, run, files, requests, digest, result>>

CallDeduplicateLeads ==
  /\ pc = "loaded"
  /\ ret' = Spread(deduplicateLeads(leads), "fn", "deduplicateLeads")
  /\ pc' = "called"
  /\ UNCHANGED <<now, leads, enriched, scored, run, files, requests, digest, result>>

NextDedup == ScrapeProviders \/ CallDeduplicateLeads

SpecDedup == Start /\ [][NextDedup]_vars

\* C25: the result of deduplicateLeads has no two leads with the same key
\* (lower-cased name and first 20 characters of the lower-cased address), and
\* for each key the lead kept has the greatest totalReviews of the input
\* leads with that key.
C25_OnePerKey ==
  pc = "called" /\ ret.fn = "deduplicateLeads" /\ ~Threw(ret) =>
    LET out == ret.value IN
    /\ \A i, j \in 1..Len(out) : i # j => DedupKey(out[i]) # DedupKey(out[j])
    /\ \A i \in 1..Len(out) : \E k \in 1..Len(leads) : out[i] = leads[k]
    /\ \A k \in 1..Len(leads) : \E i \in 1..Len(out) :
         /\ DedupKey(out[i]) = DedupKey(leads[k])
         /\ out[i].totalReviews >= leads[k].totalReviews

----------------------------------------------------------------------------
(* enrichContactInfo on records with and without each contact field *)

ContactFields == {"phone", "email", "website", "address"}

\* the values a contact field may hold: a website with and without a host
\* after its scheme, an address with and without a phone number in it
ContactValues ==
  [phone   |-> {[number |-> "555"]},
   email   |-> {[local |-> "owner", domain |-> [host |-> "mail.com"]]},
   website |-> {[domain |-> [host |-> "hot.com"]], [scheme |-> "https"]},
   address |-> {[street |-> "1 Main St"], [street |-> "1 Main St", phone |-> "444"]}]

\* scraped records with any of the contact fields
ContactLeads ==
  LET base   == [id |-> 1, totalReviews |-> 5, reviews |-> <<>>]
      All    == UNION {ContactValues[f] : f \in ContactFields}
      Picks  == UNION {{g \in [S -> All] : \A f \in S : g[f] \in ContactValues[f]} :
                         S \in SUBSET ContactFields}
  IN {[f \in DOMAIN base \cup DOMAIN g |-> IF f \in DOMAIN g THEN g[f] ELSE base[f]] :
        g \in Picks}

LoadContactLead ==
  /\ pc = "start"
  /\ \E lead \in ContactLeads : leads' = <<lead>>
  /\ pc' = "loaded"
  /\ UNCHANGED <<now, enriched, scored, ret, run, files, requests, digest, result>>

CallEnrichContactInfo ==
  Called("enrichContactInfo", Return(enrichContactInfo(leads[1])))

NextContact == LoadContactLead \/ CallEnrichContactInfo \/ EnrichLeads

SpecContact == Start /\ [][NextContact]_vars

\* enrichContactInfo was called on the record, or enrichLeads enriched it
ContactCase ==
  \/ pc = "called" /\ ret.fn = "enrichContactInfo"
  \/ pc = "enriched" /\ Len(enriched) = 1

\* the contactInfo block of that case
ContactOf ==
  IF pc = "called" THEN ret.value ELSE enriched[1].enrichment.contactInfo

\* C21 as stated: hasContact is true if and only if the record has a phone,
\* an email or a website; a record with none of the three has hasContact
\* false whatever its address holds.
C21_HasContactOfRecord ==
  ContactCase =>
    (ContactOf.hasContact <=>
       Has(leads[1], "phone") \/ Has(leads[1], "email") \/ Has(leads[1], "website"))

\* C21, amended: hasContact is true if and only if the contactInfo block has
\* a phone, an email or a website, that is if and only if the record has a
\* phone, an email or a website, or an address in which the phone pattern
\* matches; the matched number is then the block's phone.
C21_HasContactOfBlock ==
  ContactCase =>
    LET matched == Has(leads[1], "address") /\ Has(leads[1].address, "phone") IN
    /\ ContactOf.hasContact <=>
         \/ Has(leads[1], "phone") \/ Has(leads[1], "email") \/ Has(leads[1], "website")
         \/ matched
    /\ ContactOf.hasContact <=>
         ContactOf.phone # null \/ ContactOf.email # null \/ ContactOf.website # null
    /\ ~Has(leads[1], "phone") /\ matched =>
         ContactOf.phone = [number |-> leads[1].address.phone]

\* a record with an address that holds a phone number and nothing else
C21_Witness ==
  /\ pc = "called" /\ ret.fn = "enrichContactInfo"
  /\ DOMAIN leads[1] \cap ContactFields = {"address"}
  /\ Has(leads[1].address, "phone")
  /\ ret.value.hasContact
  /\ ret.value.phone = [number |-> "444"]

----------------------------------------------------------------------------
(* The exporter's methods on the records it loads *)

\* the sub-blocks of an enrichment block that flattenLeadForCsv reads
SubBlocks ==
  {"reviewTrend", "responseRate", "businessSize", "lastNegativeReview",
   "negativeReviewKeywords"}

\* obj without the fields fs
Without(obj, fs) == [f \in DOMAIN obj \ fs |-> obj[f]]

\* obj with null in the fields fs
Nulled(obj, fs) ==
  [f \in DOMAIN obj |->
     IF f \notin fs THEN obj[f]
     ELSE IF f = "negativeReviewKeywords" THEN nullArray ELSE null]

\* two scored records as scoreAllLeads leaves them in scored-leads.json: a
\* hot lead, and a lead whose one review, rated 1, is 12 hours old
\* (daysAgo = 0)
ExporterBase ==
  << [id |-> 1, name |-> "hot", totalReviews |-> 250, phone |-> [number |-> "555"],
      reviews |-> <<reviewA, reviewA, reviewA, reviewA, reviewA, reviewE>>,
      score |-> 100, priority |-> "critical",
      scoringDetails |->
        [recentNegatives |-> [count |-> 5, points |-> 40],
         lowResponseRate |-> [rate |-> 0, points |-> 30],
         businessSize    |-> [reviews |-> 250, points |-> 20],
         ratingDecline   |-> [trend |-> "worsening", trendScore |-> "critical",
                              points |-> 10]],
      enrichment |->
        [contactInfo  |-> [phone |-> [number |-> "555"], email |-> null,
                           website |-> null, hasContact |-> TRUE],
         reviewTrend  |-> [trend |-> "worsening", change |-> 0 - 100,
                           recentAvg |-> 100, olderAvg |-> 200,
                           trendScore |-> "critical"],
         businessSize |-> [size |-> "large", category |-> "Large (200-500 reviews)",
                           totalReviews |-> 250, sizeScore |-> 250],
         responseRate |-> [rate |-> 0, responded |-> 0, total |-> 6,
                           percentage |-> <<0, "%">>, engagement |-> "low"],
         negativeReviewKeywords |-> <<[word |-> "slow", count |-> 5],
                                      [word |-> "rude", count |-> 5]>>,
         lastNegativeReview |-> [date |-> 0 - 5 * Day, daysAgo |-> 5,
                                 recency |-> "very_recent"]]],
     [id |-> 2, name |-> "today", totalReviews |-> 30,
      reviews |-> <<[rating |-> 1, date |-> 0 - 1, text |-> {"bad"},
                     sentiment |-> [score |-> 0 - 3, sentiment |-> "negative"]]>>,
      score |-> 50, priority |-> "medium",
      scoringDetails |->
        [recentNegatives |-> [count |-> 1, points |-> 12],
         lowResponseRate |-> [rate |-> 0, points |-> 30],
         businessSize    |-> [reviews |-> 30, points |-> 8]],
      enrichment |->
        [contactInfo  |-> [phone |-> null, email |-> null, website |-> null,
                           hasContact |-> FALSE],
         reviewTrend  |-> [trend |-> "insufficient_data", change |-> 0],
         businessSize |-> [size |-> "small", category |-> "Small (10-50 reviews)",
                           totalReviews |-> 30, sizeScore |-> 30],
         responseRate |-> [rate |-> 0, responded |-> 0, total |-> 1,
                           percentage |-> <<0, "%">>, engagement |-> "low"],
         negativeReviewKeywords |-> <<[word |-> "bad", count |-> 1]>>,
         lastNegativeReview |-> [date |-> 0 - 1, daysAgo |-> 0,
                                 recency |-> "very_recent"]]] >>

\* the records of output/scored-leads.json, whatever wrote it: the
\* enrichment block, or any of its sub-blocks, may be missing or null
ExporterLeads ==
  LET base == {ExporterBase[i] : i \in 1..Len(ExporterBase)}
  IN {Without(l, {"enrichment"}) : l \in base}
     \cup {Spread(l, "enrichment", null) : l \in base}
     \cup {Spread(l, "enrichment", Without(l.enrichment, fs)) :
             l \in base, fs \in SUBSET SubBlocks}
     \cup {Spread(l, "enrichment", Nulled(l.enrichment, fs)) :
             l \in base, fs \in SUBSET SubBlocks}

\* exporter.loadLeads('output/scored-leads.json'), the file written by the
\* scorer
LoadScoredLeads ==
  /\ pc = "start"
  /\ \E batch \in ScoredBatches : scored' = batch
  /\ pc' = "scored"
  /\ UNCHANGED <<now, leads, enriched, ret, run, files, requests, digest, result>>

\* exporter.loadLeads('output/scored-leads.json'), the file holding one
\* record with parts of its enrichment missing
LoadScoredRecord ==
  /\ pc = "start"
  /\ \E lead \in ExporterLeads : scored' = <<lead>>
  /\ pc' = "scored"
  /\ UNCHANGED <<now, leads, enriched, ret, run, files, requests, digest, result>>

CallFlattenLeadForCsv ==
  /\ pc = "scored"
  /\ Len(scored) = 1
  /\ ret' = [fn |-> "flattenLeadForCsv", completion |-> "return",
             value |-> flattenLeadForCsv(scored[1])]
  /\ pc' = "called"
  /\ UNCHANGED <<now, leads, enriched, scored, run, files, requests, digest, result>>

CallGenerateDigest ==
  /\ pc = "scored"
  /\ \E topCount \in 0..MaxTopCount :
       ret' = [fn |-> "generateDigest", completion |-> "return",
               topCount |-> topCount, value |-> generateDigest(scored, topCount)]
  /\ pc' = "called"
  /\ UNCHANGED <<now, leads, enriched, scored, run, files, requests, digest, result>>

NextExport ==
  \/ LoadScoredLeads
  \/ LoadScoredRecord
  \/ CallFlattenLeadForCsv
  \/ CallGenerateDigest

SpecExport == Start /\ [][NextExport]_vars

----------------------------------------------------------------------------
(* Claims about calculateLeadScore, under SpecScore *)

\* the record the scorer was given and the record it returned for it
ScorerCase == pc = "scored" /\ Len(enriched) = 1 /\ Len(scored) = 1

\* C1: for every record (any review list, any totalReviews, enrichment present
\* or missing) the score is an integer with 0 <= score <= 100.
C1_ScoreInRange ==
  pc = "scored" => \A i \in 1..Len(scored) : scored[i].score \in 0..100

\* all four components award their full weight: 40 + 30 + 20 + 10 = 100
C1_Witness ==
  /\ ScorerCase
  /\ scored[1].score = 100
  /\ DOMAIN scored[1].scoringDetails =
       {"recentNegatives", "lowResponseRate", "businessSize", "ratingDecline"}
  /\ PointsOf(scored[1].scoringDetails) = 100

\* C7: priority is decided by the final score: critical iff score >= 80, high
\* iff 60 <= score < 80, medium iff 40 <= score < 60, low iff score < 40.
C7_PriorityByScore ==
  pc = "scored" =>
    \A i \in 1..Len(scored) :
      LET score == scored[i].score
          priority == scored[i].priority
      IN /\ priority \in {"critical", "high", "medium", "low"}
         /\ priority = "critical" <=> score >= 80
         /\ priority = "high" <=> (60 <= score /\ score < 80)
         /\ priority = "medium" <=> (40 <= score /\ score < 60)
         /\ priority = "low" <=> score < 40

\* a score on the boundary of the highest tier
C7_Witness == ScorerCase /\ scored[1].score = 80 /\ scored[1].priority = "critical"

\* C8: score = min(100, R + L + B + D) with R = 40 / 24 / 12 / 0 for
\* recentNegatives >= 5 / >= 3 / >= 1 / 0, L = 30 / 15 / 0 for a response
\* rate < 0.2 / < 0.5 / else (a missing rate counts as 0), B = 20 / 14 / 8 / 0
\* for totalReviews > 100 / > 50 / > 20 / else, D = 10 for trend worsening or
\* severity critical, 5 for severity high, else 0.  A record with 6 reviews of
\* the last 30 days, 5 of them rated 1, totalReviews = 250 and response rate 0
\* scores at least 90 with priority critical.
C8_Scenario ==
  /\ ScorerCase
  /\ Has(enriched[1], "reviews") /\ Len(enriched[1].reviews) = 6
  /\ \A k \in 1..6 : now - enriched[1].reviews[k].date <= 30 * Day
  /\ Cardinality({k \in 1..6 : enriched[1].reviews[k].rating = 1}) = 5
  /\ Has(enriched[1], "totalReviews") /\ enriched[1].totalReviews = 250
  /\ Has(enriched[1], "enrichment") /\ Has(enriched[1].enrichment, "responseRate")
  /\ enriched[1].enrichment.responseRate.rate = 0

----------------------------------------------------------------------------
(* Claims about the batch stages, under Spec *)

\* the position in scored of the record with the given id
PositionOf(id) == CHOOSE j \in 1..Len(scored) : scored[j].id = id

\* C2: scoreAllLeads returns a permutation of the scored inputs, in
\* non-increasing order of score, and records of equal score keep the
\* relative order they had in the input.
C2_SortedStablePermutation ==
  pc = "scored" /\ run # "exporter" =>
    LET n == Len(enriched) IN
    /\ Len(scored) = n
    /\ \A i \in 1..n : \E j \in 1..n : scored[j] = ScoredLead(enriched[i])
    /\ \A j \in 1..n : \E i \in 1..n : scored[j] = ScoredLead(enriched[i])
    /\ \A j, k \in 1..n : j < k => scored[j].score >= scored[k].score
    /\ \A i, k \in 1..n :
         i < k /\ ScoredLead(enriched[i]).score = ScoredLead(enriched[k]).score
           => PositionOf(enriched[i].id) < PositionOf(enriched[k].id)

\* two records of equal score before a record of a higher score: the sort
\* moves the third to the front and keeps the first two in order
C2_Witness ==
  /\ pc = "scored" /\ run # "exporter" /\ Len(enriched) = 3
  /\ ScoredLead(enriched[1]).score = ScoredLead(enriched[2]).score
  /\ ScoredLead(enriched[3]).score > ScoredLead(enriched[1]).score
  /\ <<scored[1].id, scored[2].id, scored[3].id>> = <<3, 1, 2>>

\* the fields of a record of the input, as the record of the output has them
LayeredOn(out, in) ==
  /\ DOMAIN in \subseteq DOMAIN out
  /\ \A f \in DOMAIN in : out[f] = in[f]

\* C3: enrichLeads and scoreAllLeads leave the input sequence and its records
\* unchanged (order, fields, review lists); each returns new records layered
\* on the records of its input.
C3_InputsUnchanged ==
  [][/\ pc = "loaded" /\ pc' \in {"enriched", "failed"} => leads' = leads
     /\ pc = "loaded" /\ pc' = "enriched" =>
          /\ Len(enriched') = Len(leads)
          /\ \A i \in 1..Len(leads) :
               /\ LayeredOn(enriched'[i], leads[i])
               /\ DOMAIN enriched'[i] = DOMAIN leads[i] \cup {"enrichment"}
     /\ pc = "enriched" /\ pc' = "scored" =>
          /\ enriched' = enriched
          /\ leads' = leads
          /\ \A i \in 1..Len(enriched) : \E j \in 1..Len(scored') :
               /\ LayeredOn(scored'[j], enriched[i])
               /\ DOMAIN scored'[j] =
                    DOMAIN enriched[i] \cup {"score", "priority", "scoringDetails"}]_vars

\* both stages have run on a batch with a record whose five reviews are not
\* in date order, the order calculateReviewTrend sorts its copy into
C3_Witness ==
  /\ pc = "scored"
  /\ \E i \in 1..Len(leads) :
       /\ Has(leads[i], "reviews") /\ Len(leads[i].reviews) >= 5
       /\ SortByDateDesc(leads[i].reviews) # leads[i].reviews
       /\ enriched[i].reviews = leads[i].reviews
----------------------------------------------------------------------------
(* Claims about one record, under SpecLead *)

\* the record has an empty review list and totalReviews = 5
C4_Case ==
  /\ LeadCase
  /\ Has(leads[1], "reviews") /\ leads[1].reviews = <<>>
  /\ Has(leads[1], "totalReviews") /\ leads[1].totalReviews = 5

\* C4 as stated: a record with an empty review list and totalReviews = 5 gets
\* no points from any of the four components, so its score is 0 and its
\* priority is low.
C4_NoPointsAtAll ==
  C4_Case =>
    /\ DOMAIN scored[1].scoringDetails = {}
    /\ scored[1].score = 0
    /\ scored[1].priority = "low"

\* C4, amended: such a record gets no points for recent negatives, business
\* size and rating decline, and the full 30 points for a low response rate
\* (the rate of an empty list is 0); its score is 30 and its priority is low.
C4_OnlyLowResponseRate ==
  C4_Case =>
    /\ DOMAIN scored[1].scoringDetails = {"lowResponseRate"}
    /\ scored[1].scoringDetails.lowResponseRate.points = 30
    /\ enriched[1].enrichment.responseRate.rate = 0
    /\ scored[1].score = 30
    /\ scored[1].priority = "low"

\* the record of the claim, enriched and scored
C4_Witness == C4_Case /\ scored[1].score = 30

\* the record has a review list and none of its reviews is rated 2 or less
C5_Case ==
  /\ LeadCase
  /\ Has(leads[1], "reviews") /\ ~IsNullish(leads[1].reviews)
  /\ \A k \in 1..Len(leads[1].reviews) : leads[1].reviews[k].rating > 2

\* C5 as stated: for a record with no review rated 2 or less, lastNegativeReview
\* is null and both the recent-negatives and the rating-decline component
\* award 0 points.
C5_NoDeclinePoints ==
  C5_Case =>
    /\ enriched[1].enrichment.lastNegativeReview = null
    /\ ~Has(scored[1].scoringDetails, "recentNegatives")
    /\ ~Has(scored[1].scoringDetails, "ratingDecline")

\* C5, amended: for such a record lastNegativeReview is null and the
\* recent-negatives component awards 0 points; the rating-decline component
\* awards 10 points when the review trend is worsening, which ratings above 2
\* can make it, and 0 points otherwise.
C5_NoNegativePoints ==
  C5_Case =>
    /\ enriched[1].enrichment.lastNegativeReview = null
    /\ ~Has(scored[1].scoringDetails, "recentNegatives")
    /\ IF enriched[1].enrichment.reviewTrend.trend = "worsening"
       THEN /\ Has(scored[1].scoringDetails, "ratingDecline")
            /\ scored[1].scoringDetails.ratingDecline.points = 10
       ELSE ~Has(scored[1].scoringDetails, "ratingDecline")

\* ratings of 3 in the newer half and of 5 in the older half: a worsening
\* trend without a review rated 2 or less
C5_Witness ==
  /\ C5_Case
  /\ Len(leads[1].reviews) >= 5
  /\ enriched[1].enrichment.reviewTrend.trend = "worsening"
  /\ scored[1].scoringDetails.ratingDecline.points = 10

\* the review list of the record is empty, undefined or null
EmptyOrAbsentReviews ==
  /\ Len(leads) = 1
  /\ LET reviews == GetArray(leads[1], "reviews")
     IN IsNullish(reviews) \/ Len(reviews) = 0

\* C6: calculateReviewTrend, calculateResponseRate, extractNegativeKeywords and
\* getLastNegativeReviewDate, and enrichLeads over them, never raise on an
\* empty or absent (undefined or null) review list; each returns its result
\* for no data, and a record without reviews does not fail the batch.
C6_NeverRaises ==
  /\ pc = "called" /\ EmptyOrAbsentReviews =>
       /\ ~Threw(ret)
       /\ ret.fn = "calculateReviewTrend" =>
            ret.value = [trend |-> "insufficient_data", change |-> 0]
       /\ ret.fn = "calculateResponseRate" =>
            ret.value.rate = 0 /\ ret.value.responded = 0 /\ ret.value.total = 0
       /\ ret.fn = "extractNegativeKeywords" => Len(ret.value) = 0
       /\ ret.fn = "getLastNegativeReviewDate" => ret.value = null
  /\ pc # "failed"

\* C9: calculateReviewTrend returns trend insufficient_data, with change 0,
\* exactly when the review list has fewer than 5 reviews (an empty or absent
\* list included); with 5 or more it returns worsening, improving or stable.
C9_InsufficientDataBelowFive ==
  pc = "called" /\ ret.fn = "calculateReviewTrend" =>
    LET reviews == GetArray(leads[1], "reviews")
        few     == IsNullish(reviews) \/ Len(reviews) < 5
    IN /\ ~Threw(ret)
       /\ few <=> ret.value.trend = "insufficient_data"
       /\ few => ret.value.change = 0
       /\ ~few => ret.value.trend \in {"worsening", "improving", "stable"}

\* exactly five reviews: the shortest list that gets a trend
C9_Witness ==
  /\ pc = "called" /\ ret.fn = "calculateReviewTrend"
  /\ Has(leads[1], "reviews") /\ ~IsNullish(leads[1].reviews)
  /\ Len(leads[1].reviews) = 5
  /\ ret.value.trend = "worsening"

----------------------------------------------------------------------------
(* Claims about estimateBusinessSize, under SpecSize *)

\* C10: sizeScore = min(totalReviews / 10, 100), so it lies in [0, 100] and
\* never decreases as totalReviews grows (sizeScore is held in tenths); the
\* tier is very_small below 10, small below 50, medium below 200, large
\* below 500, very_large from 500 on; an absent totalReviews counts as 0.
C10_SizeScoreAndTier ==
  pc = "called" /\ ret.fn = "estimateBusinessSize" =>
    LET total == IF Has(leads[1], "totalReviews") THEN leads[1].totalReviews ELSE 0
        size  == ret.value
    IN /\ size.sizeScore = (IF total <= 10 * 100 THEN total ELSE 10 * 100)
       /\ size.sizeScore \in 0..(10 * 100)
       /\ \A fewer \in 0..total :
            estimateBusinessSize([totalReviews |-> fewer]).sizeScore <= size.sizeScore
       /\ size.size = "very_small" <=> total < 10
       /\ size.size = "small" <=> (10 <= total /\ total < 50)
       /\ size.size = "medium" <=> (50 <= total /\ total < 200)
       /\ size.size = "large" <=> (200 <= total /\ total < 500)
       /\ size.size = "very_large" <=> total >= 500
       /\ size.totalReviews = total

\* a totalReviews above 1000, where the cap of 100 decides the sizeScore
C10_Witness ==
  /\ pc = "called" /\ ret.fn = "estimateBusinessSize"
  /\ Has(leads[1], "totalReviews") /\ leads[1].totalReviews > 10 * 100
  /\ ret.value.sizeScore = 10 * 100
  /\ ret.value.size = "very_large"
----------------------------------------------------------------------------
(* Claims about digest delivery and the files of a run, under Spec *)

\* sendWhatsappAlert has returned to the run
Delivered == pc \in {"delivered", "done"}

\* C11: sendWhatsappAlert never propagates an error: it returns {sent: true}
\* only when the request completed with an OK response, {sent: false, reason}
\* without any request when no webhook URL is configured, and {sent: false,
\* reason} when the request throws or answers with a non-OK status.
C11_AlertResult ==
  /\ Delivered =>
       /\ DOMAIN result \in {{"sent"}, {"sent", "reason"}}
       /\ result.sent <=>
            /\ Len(requests) = 1
            /\ ~requests[1].outcome.threw
            /\ requests[1].outcome.ok
       /\ result.sent => DOMAIN result = {"sent"}
       /\ ~result.sent => Has(result, "reason") /\ Len(result.reason) > 0
       /\ requests = <<>> <=> result = NotConfigured
       /\ Len(requests) = 1 /\ requests[1].outcome.threw =>
            result = [sent |-> FALSE, reason |-> requests[1].outcome.message]
       /\ Len(requests) = 1 /\ ~requests[1].outcome.threw /\ ~requests[1].outcome.ok =>
            result = [sent |-> FALSE, reason |-> <<"HTTP ", requests[1].outcome.status>>]
  /\ pc = "failed" => requests = <<>> /\ result = null

\* the request was answered with a status that is not OK
C11_Witness ==
  /\ pc = "delivered"
  /\ Len(requests) = 1
  /\ ~requests[1].outcome.threw /\ ~requests[1].outcome.ok
  /\ result = [sent |-> FALSE, reason |-> <<"HTTP ", 500>>]

\* C12: a run issues at most one webhook request: a request that failed (an
\* exception or a non-OK response) is never followed by another one, and no
\* request is issued when the webhook is not configured.
C12_SingleRequest ==
  [][/\ Len(requests') <= 1
     /\ requests' # requests =>
          /\ Len(requests) = 0 \/ Len(requests') = Len(requests)
          /\ requests'[1].url # ""
     /\ result' = NotConfigured => requests' = <<>>]_vars

\* a run that ended after its one request had thrown
C12_Witness ==
  /\ pc = "done"
  /\ Len(requests) = 1
  /\ requests[1].outcome.threw
  /\ ~result.sent

\* C13: in every run that reaches digest delivery, once the attempt has
\* returned (sent: true or sent: false) the digest is eventually written to
\* the local digest file, and the text written is the digest that was
\* offered for delivery.
C13_DigestSaved ==
  pc = "delivered" ~>
    /\ pc = "done"
    /\ Has(files, "whatsapp-digest.txt")
    /\ files["whatsapp-digest.txt"] = digest
    /\ \A k \in 1..Len(requests) : requests[k].body.message = files["whatsapp-digest.txt"]

\* the digest was sent, and saved all the same
C13_Witness ==
  /\ pc = "done"
  /\ result = [sent |-> TRUE]
  /\ files["whatsapp-digest.txt"] = digest
  /\ requests[1].body.message = digest

\* C14: when acquisition yields no records the run stops with a failure exit
\* before any later stage runs, and the run has written no output file (no
\* empty scraped-leads, enriched, scored, top-leads, CSV or digest file).
C14_NothingWritten ==
  pc = "exit" =>
    /\ enriched = <<>> /\ scored = <<>> /\ digest = <<>> /\ requests = <<>>
    /\ DOMAIN files = {}

\* the files a run writes after acquisition
Downstream ==
  {"enriched-leads.json", "scored-leads.json", "top-leads.json", "leads.csv",
   "whatsapp-digest.txt"}

\* C15: at the end of a runPipeline or runDemo run the downstream files
\* written by the run are either all of enriched-leads.json,
\* scored-leads.json, top-leads.json, leads.csv, whatsapp-digest.txt, or none
\* of them: a failure in a later stage never leaves only the files of the
\* earlier stages.
C15_AllOrNone ==
  run \in {"pipeline", "demo"} /\ pc \in {"done", "failed", "exit"} =>
    Downstream \cap DOMAIN files \in {{}, Downstream}
----------------------------------------------------------------------------
(* Claims about the exporter's methods, under SpecExport *)

\* flattenLeadForCsv was called on the one loaded record
FlattenCase == pc = "called" /\ ret.fn = "flattenLeadForCsv" /\ Len(scored) = 1

\* the id, score and priority of a record, as far as it has them
KeyOf(rec) == [f \in {"id", "score", "priority"} \cap DOMAIN rec |-> rec[f]]

\* C16: the flat record flattenLeadForCsv makes of a scored record has
\* exactly the id, score and priority of the scored record, so two records
\* that differ in one of the three have flat records that differ in it.
C16_FlattenKeepsKey ==
  FlattenCase =>
    /\ KeyOf(ret.value) = KeyOf(scored[1])
    /\ \A other \in ExporterLeads :
         KeyOf(flattenLeadForCsv(other)) = KeyOf(ret.value)
           => KeyOf(other) = KeyOf(scored[1])

\* a record with all three fields, flattened
C16_Witness ==
  /\ FlattenCase
  /\ DOMAIN KeyOf(scored[1]) = {"id", "score", "priority"}
  /\ ret.value.id = 2 /\ ret.value.score = 50 /\ ret.value.priority = "medium"

\* sub-block f of the enrichment of the loaded record is missing or null
MissingBlock(f) ==
  LET enrichment == Get(scored[1], "enrichment")
  IN \/ ~Has(enrichment, f)
     \/ f = "negativeReviewKeywords" /\ IsNullish(enrichment[f])
     \/ f # "negativeReviewKeywords" /\ enrichment[f] = null

\* C17: flattenLeadForCsv does not raise when the enrichment block or any of
\* its sub-blocks is missing or null: the flat fields of a missing sub-block
\* are absent or null (negativeKeywords is the empty text), and the flat
\* fields of the sub-blocks that are present are what those sub-blocks hold.
C17_FlattenMissingBlocks ==
  FlattenCase =>
    LET flat == ret.value
        e    == Get(scored[1], "enrichment")
    IN /\ ~Threw(ret)
       /\ IF MissingBlock("reviewTrend")
          THEN ~Has(flat, "reviewTrend") /\ ~Has(flat, "trendChange")
          ELSE /\ Has(flat, "reviewTrend") /\ flat.reviewTrend = e.reviewTrend.trend
               /\ Has(flat, "trendChange") /\ flat.trendChange = e.reviewTrend.change
       /\ IF MissingBlock("businessSize")
          THEN ~Has(flat, "businessSize")
          ELSE Has(flat, "businessSize") /\ flat.businessSize = e.businessSize.category
       /\ IF MissingBlock("responseRate")
          THEN flat.responseRate = null
          ELSE flat.responseRate = e.responseRate.percentage
       /\ IF MissingBlock("lastNegativeReview")
          THEN /\ flat.lastNegativeReviewDate = null
               /\ flat.lastNegativeReviewDaysAgo = null
          ELSE /\ flat.lastNegativeReviewDate = e.lastNegativeReview.date
               /\ flat.lastNegativeReviewDaysAgo = e.lastNegativeReview.daysAgo
       /\ IF MissingBlock("negativeReviewKeywords")
          THEN flat.negativeKeywords = <<>>
          ELSE /\ Len(flat.negativeKeywords) = Len(e.negativeReviewKeywords)
               /\ \A k \in 1..Len(flat.negativeKeywords) :
                    flat.negativeKeywords[k] =
                      <<e.negativeReviewKeywords[k].word, ":",
                        e.negativeReviewKeywords[k].count>>

\* reviewTrend is missing while lastNegativeReview is there, with
\* daysAgo = 0, and so are the keywords
C17_Witness ==
  /\ FlattenCase
  /\ Has(scored[1], "enrichment") /\ scored[1].enrichment # null
  /\ ~Has(scored[1].enrichment, "reviewTrend")
  /\ ~MissingBlock("lastNegativeReview")
  /\ ~MissingBlock("negativeReviewKeywords")
  /\ ret.value.lastNegativeReviewDaysAgo = 0
  /\ ~Has(ret.value, "reviewTrend")

\* generateDigest was called on the loaded records
DigestCase == pc = "called" /\ ret.fn = "generateDigest"

\* C20: generateDigest(leads, topCount) reports a total equal to the number
\* of leads, counts for critical / high / medium / low that sum to it, and a
\* numbered list of exactly min(topCount, number of leads) entries: the first
\* leads of the sequence, in order, each with its name, score and priority.
C20_Digest ==
  DigestCase =>
    LET lines == ret.value
        n     == Len(scored)
        shown == IF ret.topCount <= n THEN ret.topCount ELSE n
    IN /\ lines[2] = <<"Total leads: ", n>>
       /\ lines[3][2] + lines[3][4] + lines[3][6] + lines[3][8] = n
       /\ lines[3][2] = Cardinality({i \in 1..n : scored[i].priority = "critical"})
       /\ lines[3][4] = Cardinality({i \in 1..n : scored[i].priority = "high"})
       /\ lines[3][6] = Cardinality({i \in 1..n : scored[i].priority = "medium"})
       /\ lines[3][8] = Cardinality({i \in 1..n : scored[i].priority = "low"})
       /\ Len(lines) = 5 + shown
       /\ \A k \in 1..shown :
            /\ lines[5 + k][1] = k
            /\ lines[5 + k][3] = scored[k].name
            /\ lines[5 + k][5] = scored[k].score
            /\ lines[5 + k][7] = scored[k].priority

\* three leads and topCount = 2: the list is cut after the second
C20_Witness ==
  /\ DigestCase
  /\ Len(scored) = 3 /\ ret.topCount = 2
  /\ Len(ret.value) = 7
  /\ scored[1].score > scored[3].score

====
